---- MODULE Spec2Model ----
(***************************************************************************)
(* Model of place_recommendation_app_v2.py: one Streamlit request of       *)
(* main() (embedding, index search, similarity, table, geocoding of each   *)
(* result with get_location's retry loop, normalisation, map or warning).  *)
(*                                                                         *)
(* Numbers.  The program computes in IEEE floating point.  The model       *)
(* computes the same expressions over exact fractions <<num, den>> in      *)
(* lowest terms with den >= 0, where den = 0 stands for the IEEE special   *)
(* values: <<0, 0>> is NaN (0.0 / 0.0 on numpy scalars gives nan and a     *)
(* RuntimeWarning, no exception), <<1, 0>> and <<-1, 0>> the infinities.   *)
(* Rounding is not modelled; orderings and the zero-denominator case are   *)
(* the same in both.                                                       *)
(*                                                                         *)
(* Python values that may be None are tagged: None is <<"None">>, a        *)
(* number x is <<"num", x>>.                                               *)
(***************************************************************************)
EXTENDS Integers, Sequences, FiniteSets, TLC

VARIABLES
    pc,               \* position of the request in main()
    exc,              \* the exception that ended the request, "none" if none
    query_embedding,  \* main: query_embedding ("unset", "vector", "nan")
    embed_calls,      \* number of client.embeddings.create calls
    search_calls,     \* number of index.search calls
    ntotal,           \* rows of the index and of metadata (loaded at import)
    neighbors,        \* what the index holds nearest to the query: <<label, distance>>, nearest first
    results,          \* main: results (rows of metadata.iloc[indices[0]] with 'similarity')
    table,            \* rows shown by st.dataframe, <<"none">> before it is shown
    min_similarity,   \* main: min_similarity
    max_similarity,   \* main: max_similarity
    locations,        \* main: locations
    i,                \* 1-based position of results.iterrows(), 0 outside the loop
    attempt,          \* get_location: attempt
    max_retries,      \* get_location: max_retries
    requests,         \* number of requests.get calls
    backoff,          \* seconds spent in time.sleep
    response,         \* get_location: what requests.get yielded last
    ret,              \* value a direct call of get_location returned
    view              \* what follows the table: "none", "map" or "warning"

vars == <<pc, exc, query_embedding, embed_calls, search_calls, ntotal, neighbors,
          results, table, min_similarity, max_similarity, locations, i, attempt,
          max_retries, requests, backoff, response, ret, view>>

\* ---------------------------------------------------------------- bounds
MaxN == 5          \* the index holds 0..MaxN vectors
MaxDist == 2       \* distances of real neighbours are 0..MaxDist
MaxRetries == 6    \* max_retries of a direct get_location call is 0..MaxRetries

\* ------------------------------------------------------ program constants
K == 5                   \* index.search(query_embedding, k=5)
DefaultMaxRetries == 3   \* def get_location(name, address, max_retries=3)
BackoffSeconds == 2      \* time.sleep(2)

\* ------------------------------------------------------------- fractions
Abs(x) == IF x < 0 THEN -x ELSE x

RECURSIVE GCD(_, _)
GCD(a, b) == IF b = 0 THEN a ELSE GCD(b, a % b)

Sign(x) == IF x > 0 THEN 1 ELSE IF x < 0 THEN -1 ELSE 0

\* lowest terms, den >= 0; den = 0 keeps only the sign of num
Frac(n, d) ==
    IF d = 0 THEN <<Sign(n), 0>>
    ELSE LET g == GCD(Abs(n), Abs(d))
             s == Sign(d)
         IN  <<(s * n) \div g, (s * d) \div g>>

NaN == <<0, 0>>
IsNaN(x) == x = NaN
IsFinite(x) == x[2] > 0

FSub(a, b) ==
    IF IsFinite(a) /\ IsFinite(b) THEN Frac(a[1] * b[2] - b[1] * a[2], a[2] * b[2])
    ELSE IF IsNaN(a) \/ IsNaN(b) \/ a = b THEN NaN
    ELSE IF IsFinite(b) THEN a ELSE <<-b[1], 0>>

FDiv(a, b) ==
    IF IsNaN(a) \/ IsNaN(b) THEN NaN
    ELSE IF IsFinite(a) /\ IsFinite(b) THEN Frac(a[1] * b[2], a[2] * b[1])
    ELSE IF IsFinite(a) THEN <<0, 1>>
    ELSE IF IsFinite(b) THEN <<a[1] * (IF b[1] < 0 THEN -1 ELSE 1), 0>>
    ELSE NaN

\* IEEE comparisons: every comparison with NaN is false
FLe(a, b) ==
    /\ ~IsNaN(a) /\ ~IsNaN(b)
    /\ IF IsFinite(a) /\ IsFinite(b) THEN a[1] * b[2] <= b[1] * a[2]
       ELSE IF IsFinite(a) THEN b[1] > 0
       ELSE IF IsFinite(b) THEN a[1] < 0
       ELSE a[1] <= b[1]
FLt(a, b) == FLe(a, b) /\ a # b

\* ------------------------------------------------------------ Python values
None == <<"None">>
Num(x) == <<"num", x>>
NonePair == <<None, None>>

\* truth value of a None-or-number: None and 0 are false
Truthy(v) == v # None /\ v # Num(0)

\* ------------------------------------------------------------------ inputs
\* distances of real neighbours, as fractions
Dists == {Frac(n, 1) : n \in 0..MaxDist}

\* the scenario of the specification: distances 0, 0.4, 0.8, 1.2, 2.0
ScenarioDistances == <<Frac(0, 1), Frac(2, 5), Frac(4, 5), Frac(6, 5), Frac(2, 1)>>

\* the known distances 0, 1 and 2
KnownDists == {Frac(0, 1), Frac(1, 1), Frac(2, 1)}

Min(a, b) == IF a < b THEN a ELSE b

NonDecreasing(s) == \A j \in 1..(Len(s) - 1) : FLe(s[j], s[j + 1])

\* the labels of the n nearest vectors of an index of size nt: the rows in
\* ascending order, or in descending order
Labels(nt, n, reversed) == [j \in 1..n |-> IF reversed THEN nt - j ELSE j - 1]

\* the nearest neighbours an index of size nt can hold for a query, with
\* distances drawn from D: at most K of them, distinct labels, distances
\* non-decreasing
Neighborhoods(nt, D) ==
    LET n == Min(K, nt)
    IN  { [j \in 1..n |-> <<Labels(nt, n, rev)[j], ds[j]>>] :
            rev \in BOOLEAN, ds \in {s \in [1..n -> D] : NonDecreasing(s)} }

\* geocoding coordinates an OK response can carry (latitude 0 is the equator)
Coordinates == {<<37, 127>>, <<0, 127>>, <<37, 0>>}

\* what one requests.get(url, timeout=10) of get_location can yield: a
\* RequestException (connection error, timeout, HTTP error status from
\* raise_for_status, undecodable body), or a decoded Geocoding API reply with
\* its 'status' and 'results' (as the list of (lat, lng) of each result)
Responses ==
    {[net_error |-> TRUE, status |-> "", results |-> <<>>]}
    \cup {[net_error |-> FALSE, status |-> "OK", results |-> <<c>>] : c \in Coordinates}
    \cup {[net_error |-> FALSE, status |-> st, results |-> <<>>] :
            st \in {"OK", "ZERO_RESULTS", "OVER_QUERY_LIMIT"}}

\* ----------------------------------------------------------- get_embedding
Embedding == <<"embedding">>

\* get_embedding(text): the embedding, or None after st.error when the
\* backend raises (the exception is caught)
GetEmbedding(backend_raises) == IF backend_raises THEN None ELSE Embedding

\* np.array(e).astype('float32').reshape(1, -1): the query matrix, or a 1x1
\* matrix holding nan when e is None
QueryArray(e) == IF e = None THEN "nan" ELSE "vector"

\* ------------------------------------------------------------- index.search
\* the distance faiss reports for a missing neighbour (the largest float32),
\* beyond every real distance; its label is -1
PadDistance == Frac(1000, 1)
PadLabel == 0 - 1

\* index.search(query_embedding, k): k entries <<label, distance>>, the real
\* neighbours nearest first, then padding
IndexSearch(nb, k) ==
    [j \in 1..k |-> IF j <= Len(nb) THEN nb[j] ELSE <<PadLabel, PadDistance>>]

\* metadata.iloc[[p]]: positional row, negative positions count from the end
IlocInBounds(p, nt) == (0 - nt) <= p /\ p < nt
Iloc(p, nt) == IF p < 0 THEN nt + p ELSE p

\* 1 - distances[0] / 2
RawSimilarityNoHalf(d) == FSub(Frac(1, 1), d)
RawSimilarity(d) == FSub(Frac(1, 1), FDiv(d, Frac(2, 1)))

\* results['similarity'].max() and .min()
RECURSIVE SeqMax(_)
SeqMax(s) ==
    IF Len(s) = 1 THEN s[1]
    ELSE LET m == SeqMax(Tail(s)) IN IF FLe(m, s[1]) THEN s[1] ELSE m
RECURSIVE SeqMin(_)
SeqMin(s) ==
    IF Len(s) = 1 THEN s[1]
    ELSE LET m == SeqMin(Tail(s)) IN IF FLe(s[1], m) THEN s[1] ELSE m

Similarities(rs) == [j \in 1..Len(rs) |-> rs[j].similarity]

\* (row['similarity'] - min_similarity) / (max_similarity - min_similarity)
NormalizedInverted(sim, mn, mx) == FDiv(FSub(mx, sim), FSub(mx, mn))
NormalizedSimilarity(sim, mn, mx) == FDiv(FSub(sim, mn), FSub(mx, mn))

\* ------------------------------------------------------------- get_location
\* one pass of `for attempt in range(max_retries)` given what requests.get
\* yields: whether a request was made, whether time.sleep(2) ran, whether the
\* function returned and what.  With the range exhausted the function falls
\* off its end and returns None.
\* variant: time.sleep(2) after every failed attempt, the last included
GetLocationSleepAlways(att, mr, resp) ==
    IF att >= mr THEN
        [request |-> FALSE, sleep |-> FALSE, returned |-> TRUE, value |-> None]
    ELSE IF resp.net_error THEN
        [request |-> TRUE, sleep |-> TRUE, returned |-> ~(att < mr - 1), value |-> NonePair]
    ELSE IF resp.status = "OK" /\ resp.results # <<>> THEN
        [request |-> TRUE, sleep |-> FALSE, returned |-> TRUE,
         value |-> <<Num(resp.results[1][1]), Num(resp.results[1][2])>>]
    ELSE
        [request |-> TRUE, sleep |-> FALSE, returned |-> TRUE, value |-> NonePair]

\* variant: `return None, None` inside the except branch only, so a reply
\* without a usable result goes on to the next attempt
GetLocationRetryReplies(att, mr, resp) ==
    IF att >= mr THEN
        [request |-> FALSE, sleep |-> FALSE, returned |-> TRUE, value |-> None]
    ELSE IF resp.status = "OK" /\ resp.results # <<>> /\ ~resp.net_error THEN
        [request |-> TRUE, sleep |-> FALSE, returned |-> TRUE,
         value |-> <<Num(resp.results[1][1]), Num(resp.results[1][2])>>]
    ELSE IF att < mr - 1
        THEN [request |-> TRUE, sleep |-> resp.net_error, returned |-> FALSE, value |-> None]
        ELSE [request |-> TRUE, sleep |-> FALSE, returned |-> TRUE, value |-> NonePair]

GetLocationAttempt(att, mr, resp) ==
    IF att >= mr THEN
        [request |-> FALSE, sleep |-> FALSE, returned |-> TRUE, value |-> None]
    ELSE IF resp.net_error THEN
        IF att < mr - 1
        THEN [request |-> TRUE, sleep |-> TRUE, returned |-> FALSE, value |-> None]
        ELSE [request |-> TRUE, sleep |-> FALSE, returned |-> TRUE, value |-> NonePair]
    ELSE IF resp.status = "OK" /\ resp.results # <<>> THEN
        [request |-> TRUE, sleep |-> FALSE, returned |-> TRUE,
         value |-> <<Num(resp.results[1][1]), Num(resp.results[1][2])>>]
    ELSE
        [request |-> TRUE, sleep |-> FALSE, returned |-> TRUE, value |-> NonePair]

\* ---------------------------------------------------------------- requests
\* state common to every start: nothing computed, nothing shown
Fresh ==
    /\ exc = "none"
    /\ query_embedding = "unset"
    /\ embed_calls = 0
    /\ search_calls = 0
    /\ results = <<>>
    /\ table = <<"none">>
    /\ min_similarity = NaN
    /\ max_similarity = NaN
    /\ locations = <<>>
    /\ i = 0
    /\ attempt = 0
    /\ requests = 0
    /\ backoff = 0
    /\ response = [net_error |-> FALSE, status |-> "", results |-> <<>>]
    /\ ret = <<"unset">>
    /\ view = "none"

\* a request of main() against an index of 0..MaxN vectors
Init ==
    /\ Fresh
    /\ pc = "input"
    /\ ntotal \in 0..MaxN
    /\ neighbors \in Neighborhoods(ntotal, Dists)
    /\ max_retries = DefaultMaxRetries

\* a request of main() whose five nearest neighbours are at the scenario's
\* distances, or at known distances
InitFixture ==
    /\ Fresh
    /\ pc = "input"
    /\ ntotal \in K..MaxN
    /\ neighbors \in {nb \in Neighborhoods(ntotal, KnownDists \cup {ScenarioDistances[j] : j \in 1..K}) :
                        \/ [j \in 1..K |-> nb[j][2]] = ScenarioDistances
                        \/ \A j \in 1..K : nb[j][2] \in KnownDists}
    /\ max_retries = DefaultMaxRetries

\* a direct call get_location(name, address, max_retries)
InitGeo ==
    /\ Fresh
    /\ pc = "get_location"
    /\ ntotal = 0
    /\ neighbors = <<>>
    /\ max_retries \in 0..MaxRetries

\* main, `if user_input:` with an empty input: nothing is done
NoInput ==
    /\ pc = "input"
    /\ pc' = "idle"
    /\ UNCHANGED <<exc, query_embedding, embed_calls, search_calls, ntotal, neighbors,
                   results, table, min_similarity, max_similarity, locations, i,
                   attempt, max_retries, requests, backoff, response, ret, view>>

\* main, line 72: get_embedding(user_input) and the conversion of its value
Embed ==
    /\ pc = "input"
    /\ \E backend_raises \in BOOLEAN :
          query_embedding' = QueryArray(GetEmbedding(backend_raises))
    /\ embed_calls' = embed_calls + 1
    /\ pc' = "search"
    /\ UNCHANGED <<exc, search_calls, ntotal, neighbors, results, table,
                   min_similarity, max_similarity, locations, i, attempt,
                   max_retries, requests, backoff, response, ret, view>>

\* the rows of results: metadata.iloc[indices[0]] with the similarity column
ResultRows(found, nt) ==
    [j \in 1..Len(found) |->
        [index |-> found[j][1],
         row |-> Iloc(found[j][1], nt),
         similarity |-> RawSimilarity(found[j][2])]]

\* st.dataframe(results[['name', 'address', 'review_text', 'similarity']])
Dataframe(rs) == [j \in 1..Len(rs) |-> [row |-> rs[j].row, similarity |-> rs[j].similarity]]

\* main, lines 75-90: index.search, results, the table, max and min, and the
\* first call of get_location.  faiss refuses a query whose width is not the
\* index's (AssertionError); iloc refuses a position outside the frame
\* (IndexError).
Search ==
    /\ pc = "search"
    /\ search_calls' = search_calls + 1
    /\ LET found == IndexSearch(neighbors, K)
           rows == ResultRows(found, ntotal)
       IN  IF query_embedding = "nan" THEN
               /\ pc' = "crashed"
               /\ exc' = "AssertionError"
               /\ UNCHANGED <<results, table, min_similarity, max_similarity, i>>
           ELSE IF \E j \in 1..K : ~IlocInBounds(found[j][1], ntotal) THEN
               /\ pc' = "crashed"
               /\ exc' = "IndexError"
               /\ UNCHANGED <<results, table, min_similarity, max_similarity, i>>
           ELSE
               /\ results' = rows
               /\ table' = Dataframe(rows)
               /\ max_similarity' = SeqMax(Similarities(rows))
               /\ min_similarity' = SeqMin(Similarities(rows))
               /\ i' = 1
               /\ pc' = "geocode"
               /\ UNCHANGED exc
    /\ attempt' = 0
    /\ max_retries' = DefaultMaxRetries
    /\ locations' = <<>>
    /\ UNCHANGED <<query_embedding, embed_calls, ntotal, neighbors, requests,
                   backoff, response, ret, view>>

\* the entry main appends for row r geocoded at (lat, lng)
Location(r, lat, lng) ==
    [row |-> r.row,
     similarity |-> NormalizedSimilarity(r.similarity, min_similarity, max_similarity),
     latitude |-> lat,
     longitude |-> lng]

\* main, lines 94-105: `if lat and lng:` append the entry
Keep(locs, r, v) ==
    IF Truthy(v[1]) /\ Truthy(v[2]) THEN Append(locs, Location(r, v[1], v[2])) ELSE locs

\* main, lines 108-176: the map when locations is not empty, else the warning
View(locs) == IF locs # <<>> THEN "map" ELSE "warning"

\* main, lines 92-176: one pass of get_location's loop for row i; when
\* get_location returns, its value is bound to lat, lng and the rest of the
\* loop body runs, then the next row's call or, after the last row, the map
\* or the warning
GeocodeRow ==
    /\ pc = "geocode"
    /\ \E resp \in Responses :
        LET o == GetLocationAttempt(attempt, max_retries, resp)
        IN  /\ response' = IF o.request THEN resp ELSE response
            /\ requests' = requests + (IF o.request THEN 1 ELSE 0)
            /\ backoff' = backoff + (IF o.sleep THEN BackoffSeconds ELSE 0)
            /\ IF ~o.returned THEN
                   /\ attempt' = attempt + 1
                   /\ UNCHANGED <<pc, exc, locations, i, view>>
               ELSE IF o.value = None THEN
                   \* `lat, lng = None` cannot be unpacked
                   /\ pc' = "crashed"
                   /\ exc' = "TypeError"
                   /\ UNCHANGED <<locations, i, attempt, view>>
               ELSE
                   /\ locations' = Keep(locations, results[i], o.value)
                   /\ IF i < Len(results)
                      THEN /\ i' = i + 1
                           /\ attempt' = 0
                           /\ UNCHANGED <<pc, view>>
                      ELSE /\ pc' = "done"
                           /\ view' = View(locations')
                           /\ UNCHANGED <<i, attempt>>
                   /\ UNCHANGED exc
    /\ UNCHANGED <<query_embedding, embed_calls, search_calls, ntotal, neighbors,
                   results, table, min_similarity, max_similarity, max_retries, ret>>

\* one pass of the loop of a direct call of get_location
GetLocation ==
    /\ pc = "get_location"
    /\ \E resp \in Responses :
        LET o == GetLocationAttempt(attempt, max_retries, resp)
        IN  /\ response' = IF o.request THEN resp ELSE response
            /\ requests' = requests + (IF o.request THEN 1 ELSE 0)
            /\ backoff' = backoff + (IF o.sleep THEN BackoffSeconds ELSE 0)
            /\ IF ~o.returned
               THEN /\ attempt' = attempt + 1
                    /\ UNCHANGED <<pc, ret>>
               ELSE /\ ret' = o.value
                    /\ pc' = "returned"
                    /\ UNCHANGED attempt
    /\ UNCHANGED <<exc, query_embedding, embed_calls, search_calls, ntotal, neighbors,
                   results, table, min_similarity, max_similarity, locations, i,
                   max_retries, view>>

Next == NoInput \/ Embed \/ Search \/ GeocodeRow

NextGeo == GetLocation

Spec == Init /\ [][Next]_vars

SpecFixture == InitFixture /\ [][Next]_vars

SpecGeo == InitGeo /\ [][NextGeo]_vars

\* ------------------------------------------------------------------ claims
\* results exist: index.search and iloc succeeded
InLoop == pc \in {"geocode", "done"}

\* rows of results whose get_location call has returned
Handled == IF pc = "done" THEN Len(results) ELSE IF pc = "geocode" THEN i - 1 ELSE 0

\* the reply held in response is a geocoding success: status OK with a result
Geocoded(resp) == ~resp.net_error /\ resp.status = "OK" /\ resp.results # <<>>

\* the state right after a call of get_location returned to main
JustReturned == Handled >= 1 /\ (pc = "done" \/ attempt = 0)

InUnitInterval(x) == FLe(Frac(0, 1), x) /\ FLe(x, Frac(1, 1))

RECURSIVE IsSubsequence(_, _)
IsSubsequence(a, b) ==
    IF a = <<>> THEN TRUE
    ELSE IF b = <<>> THEN FALSE
    ELSE IF a[1] = b[1] THEN IsSubsequence(Tail(a), Tail(b))
    ELSE IsSubsequence(a, Tail(b))

RowsOf(s) == [j \in 1..Len(s) |-> s[j].row]

\* C1: when all raw similarities of the result set are equal, every
\* normalized similarity in locations is one defined (finite) constant.
C1_EqualRawGivesConstant ==
    (InLoop /\ min_similarity = max_similarity) =>
        \A j \in 1..Len(locations) :
            /\ IsFinite(locations[j].similarity)
            /\ locations[j].similarity = locations[1].similarity

\* C2: the normalized similarity of every entry of locations is a number in
\* [0, 1].
C2_NormalizedInUnitInterval ==
    \A j \in 1..Len(locations) : InUnitInterval(locations[j].similarity)

\* C3: when the embedding backend raises, index.search is never called for
\* the query and the embedding call was made exactly once.
C3_EmbeddingFailureIsTerminal ==
    query_embedding = "nan" => (search_calls = 0 /\ embed_calls = 1)

\* the order part of C4: results and the table are in the order of the
\* index answer, nearest first, and locations is a subsequence of results
C4_OrderKept ==
    InLoop =>
        /\ \A j \in 1..K : results[j].index = IndexSearch(neighbors, K)[j][1]
        /\ \A j \in 1..(K - 1) : FLe(results[j + 1].similarity, results[j].similarity)
        /\ RowsOf(table) = RowsOf(results)
        /\ IsSubsequence(RowsOf(locations), RowsOf(results))
        /\ Len(locations) <= Handled

\* C4: results, the table and locations keep the index's nearest-first
\* order; locations is a subsequence of results, and a row is left out of it
\* only when its geocoding failed (a row that geocoded is the last entry of
\* locations right after its call returned).
C4_OrderKeptOmittedOnlyOnFailure ==
    /\ C4_OrderKept
    /\ (JustReturned /\ Geocoded(response)) =>
           /\ locations # <<>>
           /\ locations[Len(locations)].row = results[Handled].row

\* the part of C5 that does not depend on which rows geocoded: the table of
\* all results is shown, geocoding never ends the request with an exception,
\* and the request ends with the map when locations is not empty, else with
\* the warning
C5_TableShown ==
    /\ InLoop => table = Dataframe(results)
    /\ pc = "crashed" => exc \in {"AssertionError", "IndexError"}
    /\ pc = "done" => (view = "map" <=> locations # <<>>)
    /\ pc = "done" => view \in {"map", "warning"}

\* C5: whatever the geocoding outcomes, the table of all results is shown
\* and the request is not failed by geocoding; at the end a map is rendered
\* exactly when at least one result geocoded, else the warning is shown.
\* (The state holds the reply for the last row: the map is required when
\* that row geocoded.)
C5_MapIffSomeResultGeocoded ==
    /\ C5_TableShown
    /\ (pc = "done" /\ Geocoded(response)) => view = "map"

\* C7: no padded entry (label -1) of the index answer becomes a row of
\* results, of the table or of locations: results has one row per real
\* neighbour.
C7_PaddingFilteredOut ==
    InLoop =>
        /\ \A j \in 1..Len(results) : results[j].index # PadLabel
        /\ Len(results) = Len(neighbors)
        /\ Len(table) = Len(neighbors)

\* the state part of C6.  Each returned call made one request more than it
\* slept; the call in progress made `attempt` requests, each followed by a
\* sleep.
C6_Ceiling ==
    /\ pc = "geocode" => (attempt < max_retries /\ ENABLED GeocodeRow)
    /\ InLoop => requests <= Handled * max_retries + (IF pc = "geocode" THEN attempt ELSE 0)
    /\ InLoop => backoff = BackoffSeconds * (requests - Handled)
    /\ requests <= K * max_retries
    /\ max_retries = DefaultMaxRetries

\* C6: get_location makes at most max_retries requests per call, sleeps
\* BackoffSeconds only between a failed attempt and the next one, never
\* after the last, and every step of the loop makes a request, so the call
\* ends; a whole request of main makes at most K * max_retries requests.
C6_RetryCeiling ==
    /\ []C6_Ceiling
    /\ [][pc = "geocode" => requests' = requests + 1]_vars

\* every call of the request failed on the network max_retries times
C6_Witness ==
    /\ pc = "done"
    /\ requests = K * DefaultMaxRetries
    /\ backoff = BackoffSeconds * K * (DefaultMaxRetries - 1)

\* the entry e of locations was computed from the row r of results: it has
\* r's name, address and review and r's normalized similarity
FromResult(e, r) ==
    /\ e.row = r.row
    /\ e.similarity = NormalizedSimilarity(r.similarity, min_similarity, max_similarity)

\* C8: min and max are the least and the greatest raw similarity of the
\* current results, and for any two entries of locations computed from rows
\* a and b, raw_a > raw_b implies normalized_a >= normalized_b.
C8_NormalizationMonotonic ==
    InLoop =>
        /\ \A j \in 1..Len(results) :
              /\ FLe(min_similarity, results[j].similarity)
              /\ FLe(results[j].similarity, max_similarity)
        /\ \E j \in 1..Len(results) : results[j].similarity = min_similarity
        /\ \E j \in 1..Len(results) : results[j].similarity = max_similarity
        /\ \A a, b \in 1..Len(results) :
              FLt(results[b].similarity, results[a].similarity) =>
                  LET na == NormalizedSimilarity(results[a].similarity, min_similarity, max_similarity)
                      nb == NormalizedSimilarity(results[b].similarity, min_similarity, max_similarity)
                  IN  \A j, l \in 1..Len(locations) :
                          (/\ locations[j].row = results[a].row
                           /\ locations[j].similarity = na
                           /\ locations[l].row = results[b].row
                           /\ locations[l].similarity = nb)
                              => FLe(locations[l].similarity, locations[j].similarity)

\* two entries computed from rows of different raw similarity, one of them
\* neither the least nor the greatest
C8_Witness ==
    /\ pc = "done"
    /\ \E a, b \in 1..Len(results) :
          /\ FLt(results[b].similarity, results[a].similarity)
          /\ FLt(min_similarity, results[b].similarity)
          /\ \E j, l \in 1..Len(locations) :
                /\ FromResult(locations[j], results[a])
                /\ FromResult(locations[l], results[b])
                /\ FLt(locations[l].similarity, locations[j].similarity)

DistancesOf(nb) == [j \in 1..Len(nb) |-> nb[j][2]]

C10_GetLocationReturns ==
    max_retries >= 1 =>
        /\ pc = "get_location" =>
              /\ attempt < max_retries
              /\ requests = attempt
              /\ attempt > 0 => response.net_error
        /\ backoff = BackoffSeconds * attempt
        /\ pc = "returned" =>
              /\ requests = attempt + 1
              /\ requests <= max_retries
              /\ Len(ret) = 2
              /\ IF response.net_error
                 THEN attempt = max_retries - 1 /\ ret = NonePair
                 ELSE IF response.status = "OK" /\ response.results # <<>>
                 THEN ret = <<Num(response.results[1][1]), Num(response.results[1][2])>>
                 ELSE ret = NonePair

\* a call that got coordinates on its third attempt
C10_Witness ==
    /\ pc = "returned"
    /\ max_retries = DefaultMaxRetries
    /\ attempt = 2
    /\ ret = <<Num(37), Num(127)>>
====
